---- MODULE Spec2Model ----
(***************************************************************************)
(* The cast ticket engine of aspirin2d/idle (routes/cast.ts).              *)
(*                                                                         *)
(* src/unnamed/part_007 holds two revisions of routes/cast.ts:             *)
(*   "soft" (lines 1-250):   Start and Cancel set endedAt, rows are kept;  *)
(*                           routes POST /, DELETE /, POST /claim.         *)
(*   "hard" (lines 252-576): Start and Cancel delete the rows;             *)
(*                           routes POST /, DELETE /, GET /, POST /claim.  *)
(* The variable rev fixes the revision a behaviour runs.                   *)
(*                                                                         *)
(* Every handler is an async function: it is cut into one action per       *)
(* stretch between two awaits on the database or on a timer.  The database *)
(* is one embedded PGlite instance (src/src/db/index.ts:19), which runs    *)
(* one statement or one transaction at a time, so each statement and each  *)
(* db.transaction is one atomic step.                                      *)
(***************************************************************************)
EXTENDS Integers, Sequences, FiniteSets, TLC

VARIABLES
  rev,      \* revision of routes/cast.ts that is running: "soft" or "hard"
  env,      \* process.env.CAST_DEFAULT_CLAIM_MAX when the module was loaded
  now,      \* the wall clock, in milliseconds (Date.now())
  cast,     \* the rows of table "cast"
  nextId,   \* number of ids handed out so far, plus one (ids are unique)
  pc,       \* per caller: where its handler is suspended
  loc,      \* per caller: the handler's local variables across an await
  resp,     \* the HTTP response the last step sent (NoResp when it sent none)
  call,     \* history: the call that sent resp (what a Claim read and took,
            \* how many updates it issued, whether it was raced; how many
            \* rows the statement of a Cancel changed)
  raced,    \* history, per caller suspended in Claim: has another Claim's
            \* increment of the row it read been applied since it read it
  log,      \* history, per caller: how its last Claim call ended (kept only
            \* in the scenarios that set scen.logging)
  scen,     \* the scenario: is log kept, and availableRuns when it began
  arg,      \* input of the pure function under check
  out       \* result of the pure function under check

vars == <<rev, env, now, cast, nextId, pc, loc, resp, call, raced, log, scen,
          arg, out>>

(* ------------------------------ bounds -------------------------------- *)

\* The clock advances at most this many steps of ClockStep.
MaxSteps == 2
\* At most this many tickets are ever created.
MaxTickets == 2
\* CAST_UNLIMITED_CAP: any positive integer of the environment (1000 when
\* unset); the model runs with a small one so that the cap is reached.
UNLIMITED_CAP == 2
\* Largest availableRuns and largest |limit| numerator drawn for takeOf.
MaxAvail == 5
MaxNum == 7

(* ----------------------------- constants ------------------------------ *)

FishingInterval == 2000
PREFER_WAIT_MAX_MS == 10000
ClockStep == FishingInterval
MaxTime == MaxSteps * ClockStep

Revisions == {"soft", "hard"}
Procs == {"p1", "p2"}
RaceProcs == {"p1", "p2", "p3"}
Callers == DOMAIN pc

\* A nullable column or field: {} is null, {v} is the value v.
Null == {}
Some(v) == {v}
The(o) == CHOOSE v \in o : TRUE

Max2(a, b) == IF a >= b THEN a ELSE b
Min2(a, b) == IF a <= b THEN a ELSE b

(* ----------------------------- helpers -------------------------------- *)

clamp(n, lo, hi) == Max2(lo, Min2(hi, n))

\* Date.prototype.toISOString and back: a timestamp travels as a string.
toISOString(ms) == [iso |-> ms]
toMs(d) == d.iso

ticksElapsed(row, atMs) ==
  LET elapsed == atMs - toMs(row.startedAt)
  IN  IF elapsed <= 0 THEN 0 ELSE elapsed \div row.claimInterval

maxRuns(row) == IF row.claimMax = Null THEN UNLIMITED_CAP ELSE The(row.claimMax)

\* Faulty variant of availableRuns: the runs due are not capped by maxRuns.
availableUncapped(row, atMs) == Max2(0, ticksElapsed(row, atMs) - row.claimed)

availableRuns(row, atMs) ==
  LET done == Min2(ticksElapsed(row, atMs), maxRuns(row))
  IN  Max2(0, done - row.claimed)

\* JavaScript's %: the remainder has the sign of the dividend.
JsRem(a, b) == IF a >= 0 THEN a % b ELSE 0 - ((0 - a) % b)

\* Faulty variant of nextEta: the time into the interval is returned, not the
\* time left of it.
nextEtaInto(row, atMs) ==
  IF availableRuns(row, atMs) > 0 THEN 0
  ELSE LET elapsed == atMs - toMs(row.startedAt)
       IN  JsRem(JsRem(elapsed, row.claimInterval) + row.claimInterval,
                 row.claimInterval)

\* Faulty variant of nextEta: one remainder, which is negative before startedAt.
nextEtaOneRem(row, atMs) ==
  IF availableRuns(row, atMs) > 0 THEN 0
  ELSE LET elapsed == atMs - toMs(row.startedAt)
       IN  row.claimInterval - JsRem(elapsed, row.claimInterval)

\* Faulty variant of nextEta: a whole interval, wherever in it atMs is.
nextEtaWhole(row, atMs) ==
  IF availableRuns(row, atMs) > 0 THEN 0 ELSE row.claimInterval

nextEta(row, atMs) ==
  IF availableRuns(row, atMs) > 0 THEN 0
  ELSE LET elapsed == atMs - toMs(row.startedAt)
           into == JsRem(JsRem(elapsed, row.claimInterval) + row.claimInterval,
                         row.claimInterval)
       IN  row.claimInterval - into

\* Faulty variant of finished: the runs claimed are counted, not the runs due.
finishedByClaimed(row, atMs) == row.claimed >= maxRuns(row)

finished(row, atMs) == ticksElapsed(row, atMs) >= maxRuns(row)

\* Faulty variant of etagFor: the counter is left out of the tag.
etagWithoutClaimed(row) == <<row.id, 0, toMs(row.startedAt)>>

etagFor(row) == <<row.id, row.claimed, toMs(row.startedAt)>>

\* remaining, as both claim branches compute it.
remainingOf(row) ==
  IF row.claimMax = Null
    THEN Max2(0, UNLIMITED_CAP - row.claimed)
    ELSE Max2(0, maxRuns(row) - row.claimed)

(* ------------------------- numbers and strings ------------------------ *)

\* A JavaScript number as the model needs it: NaN, +-Infinity or num/den.
NaN == [cls |-> "nan", num |-> 0, den |-> 1]
Inf(sign) == [cls |-> "inf", num |-> sign, den |-> 1]
Fin(n, d) == [cls |-> "fin", num |-> n, den |-> d]

\* A string handed to Number(): absent (undefined), empty, numeric text,
\* "Infinity"/"-Infinity", or any other text.
Absent == [kind |-> "absent", s |-> "", num |-> 0, den |-> 1]
Text(s) == [kind |-> "text", s |-> s, num |-> 0, den |-> 1]
NumText(n, d) == [kind |-> "num", s |-> "", num |-> n, den |-> d]
InfText(sign) == [kind |-> "inf", s |-> "", num |-> sign, den |-> 1]

\* Number(x): undefined and non-numeric text give NaN, "" gives 0.
Number(x) ==
  CASE x.kind = "absent" -> NaN
    [] x.kind = "text" -> IF x.s = "" THEN Fin(0, 1) ELSE NaN
    [] x.kind = "inf" -> Inf(x.num)
    [] x.kind = "num" -> Fin(x.num, x.den)

isFinite(n) == n.cls = "fin"
\* Math.floor of num/den, den > 0.
floor(n) == n.num \div n.den
isInteger(n) == n.cls = "fin" /\ n.num % n.den = 0
\* n >= k for a number n and an integer k (false for NaN).
geq(n, k) ==
  CASE n.cls = "nan" -> FALSE
    [] n.cls = "inf" -> n.num > 0
    [] n.cls = "fin" -> n.num >= k * n.den

\* String.prototype.toLowerCase on the texts the model uses.
toLowerCase(s) ==
  CASE s = "NULL" -> "null"
    [] s = "Unlimited" -> "unlimited"
    [] OTHER -> s

\* DEFAULT_CLAIM_MAX, computed once from the environment at module load.
DefaultClaimMaxOf(v) ==
  IF v.kind = "absent" \/ (v.kind = "text" /\ v.s = "") THEN Some(1)
  ELSE IF v.kind = "text" /\ toLowerCase(v.s) \in {"null", "unlimited"} THEN Null
  ELSE LET n == Number(v)
       IN  IF isFinite(n) /\ geq(n, 1) THEN Some(floor(n)) ELSE Some(1)

DEFAULT_CLAIM_MAX == DefaultClaimMaxOf(env)

\* Faulty variant of takeOf: the limit is tested for truth, so that 0 means "all".
takeOfTruthy(limit, available) ==
  LET limitParam == Number(limit)
      requested == IF isFinite(limitParam) /\ limitParam.num # 0
                     THEN Max2(1, floor(limitParam))
                     ELSE available
  IN  clamp(requested, 1, available)

\* take of POST /claim: ?limit=N clamped into 1..available.
takeOf(limit, available) ==
  LET limitParam == Number(limit)
      requested == IF isFinite(limitParam)
                     THEN Max2(1, floor(limitParam))
                     ELSE available
  IN  clamp(requested, 1, available)

(* ------------------------------ the store ----------------------------- *)

SkillMap == [fishing |-> [id |-> "fishing", claimInterval |-> FishingInterval]]
TargetMap == [little_pond |-> [id |-> "little_pond"]]

NoRow == [id |-> 0, skill |-> "", target |-> "", startedAt |-> toISOString(0),
          claimed |-> 0, claimMax |-> Null, claimInterval |-> 1, endedAt |-> Null]

\* The rows getActive's query selects from, before ORDER BY and LIMIT 1:
\* the soft revision filters on ended_at IS NULL, the hard one does not.
Eligible == IF rev = "soft" THEN {r \in cast : r.endedAt = Null} ELSE cast

\* getActive: the eligible rows with the greatest startedAt (LIMIT 1 returns
\* any one of them; none when the set is empty).
getActive ==
  {r \in Eligible : \A q \in Eligible : toMs(q.startedAt) <= toMs(r.startedAt)}

\* Faulty variant of endActive: the UPDATE that retires the active row is left out.
endNone(rows, nowIso) == rows

\* Faulty variant of endActive: the WHERE clause is left out.
endAll(rows, nowIso) == {[r EXCEPT !.endedAt = Some(nowIso)] : r \in rows}

\* UPDATE cast SET ended_at = nowIso WHERE ended_at IS NULL
endActive(rows, nowIso) ==
  {IF r.endedAt = Null THEN [r EXCEPT !.endedAt = Some(nowIso)] ELSE r : r \in rows}

\* Faulty variant of casMatches: the update is keyed on the id alone.
idMatches(r, row) == r.id = row.id

\* Faulty variant of casMatches: claimed is compared with the value to be written.
casShifted(r, row) == r.id = row.id /\ r.claimed = row.claimed + 1

\* WHERE id = row.id AND claimed = row.claimed
casMatches(r, row) == r.id = row.id /\ r.claimed = row.claimed

\* Faulty variant of incremented: SET claimed = take.
overwritten(r, take) == [r EXCEPT !.claimed = take]

\* SET claimed = claimed + take
incremented(r, take) == [r EXCEPT !.claimed = r.claimed + take]

\* Faulty variant of claimUpdate: the row is written whether or not claimed
\* is still the value that was read.
claimUpdateById(rows, row, take) ==
  {IF r.id = row.id THEN incremented(r, take) ELSE r : r \in rows}

\* UPDATE cast SET claimed = claimed + take WHERE id = .. AND claimed = ..
claimUpdate(rows, row, take) ==
  {IF casMatches(r, row) THEN incremented(r, take) ELSE r : r \in rows}

\* ... RETURNING: the rows the update changed, as they are afterwards.
claimReturning(rows, row, take) ==
  {incremented(r, take) : r \in {q \in rows : casMatches(q, row)}}

(* --------------------------- requests, responses ---------------------- *)

\* A JSON value of a request body field: undefined (field omitted), null or
\* the number num/den.
JUndefined == [kind |-> "undefined", num |-> 0, den |-> 1]
JNull == [kind |-> "null", num |-> 0, den |-> 1]
JNum(n, d) == [kind |-> "number", num |-> n, den |-> d]

\* Faulty variant of claimMaxOk: .min(1) is left out.
claimMaxAnyInt(cm) ==
  \/ cm.kind \in {"undefined", "null"}
  \/ cm.kind = "number" /\ cm.num % cm.den = 0

\* claimMax: z.number().int().min(1).nullable().optional()
claimMaxOk(cm) ==
  \/ cm.kind \in {"undefined", "null"}
  \/ cm.kind = "number" /\ cm.num % cm.den = 0 /\ cm.num >= cm.den

\* startSchema.safeParse(body).success
startSchemaOk(body) ==
  body.skillId # Null /\ body.targetId # Null /\ claimMaxOk(body.claimMax)

\* Faulty variant of effectiveClaimMax: reqClaimMax ?? DEFAULT_CLAIM_MAX.
effectiveClaimMaxCoalesce(cm) ==
  CASE cm.kind = "undefined" -> DEFAULT_CLAIM_MAX
    [] cm.kind = "null" -> DEFAULT_CLAIM_MAX
    [] cm.kind = "number" -> Some(cm.num \div cm.den)

\* effectiveClaimMax of POST /
effectiveClaimMax(cm) ==
  CASE cm.kind = "undefined" -> DEFAULT_CLAIM_MAX
    [] cm.kind = "null" -> Null
    [] cm.kind = "number" -> Some(cm.num \div cm.den)

\* The Prefer header: absent, "wait=<digits>" or any other text.
Wait(n) == [kind |-> "wait", s |-> "", num |-> n, den |-> 1]

\* Number(m?.[1] ?? 0) for the match m of /(?:^|,)\s*wait=(\d+)\s*(?:$|,)/i
preferWait(prefer) == IF prefer.kind = "wait" THEN prefer.num ELSE 0

NoTag == <<>>

NoLoc == [row |-> NoRow, take |-> 0, nowIso |-> toISOString(0), wake |-> 0]

NoResp ==
  [to |-> "", op |-> "none", status |-> 0, kind |-> "none", id |-> 0, taken |-> 0,
   totalClaimed |-> 0, remaining |-> 0, eta |-> 0, claimed |-> 0,
   claimMax |-> Null, claimInterval |-> 0, startedAt |-> toISOString(0),
   available |-> 0, finished |-> FALSE, etag |-> NoTag,
   retryAfter |-> Null, retryAfterMs |-> Null]

NoCall == [seenId |-> 0, seenClaimed |-> 0, take |-> 0, updates |-> 0,
           raced |-> FALSE, changed |-> 0]

NoLog == [kind |-> "none", seenId |-> 0, seenClaimed |-> 0, avail |-> 0,
          taken |-> 0, conflicts |-> 0]

\* Faulty variant of CeilSeconds: the seconds are rounded down.
FloorSeconds(ms) == ms \div 1000

\* ceil(ms / 1000)
CeilSeconds(ms) == (ms + 999) \div 1000

(* ------------------------------- inputs ------------------------------- *)

EnvSettings == {Absent}

Body(s, t, cm) == [skillId |-> s, targetId |-> t, claimMax |-> cm]
Bodies ==
  {Body(Some("fishing"), Some("little_pond"), cm) :
     cm \in {JUndefined, JNull, JNum(0, 1), JNum(1, 1)}}
  \cup {Body(Null, Null, JUndefined),
        Body(Some("nope"), Some("little_pond"), JUndefined),
        Body(Some("fishing"), Some("nowhere"), JNum(1, 1))}

Limits == {Absent, NumText(1, 2)}

Prefers == {Absent, Wait(5000)}

(* ------------------------------- actions ------------------------------ *)

\* What a step leaves alone besides the variables named in its action.
Fixed == UNCHANGED <<rev, env, scen, arg, out>>
\* The step sends no response.
Silent == resp' = NoResp /\ call' = NoCall
\* The step sends response r to caller p.
Send(p, r) == resp' = [r EXCEPT !.to = p]
\* The handler of caller p returns.
Return(p) == pc' = [pc EXCEPT ![p] = "idle"] /\ loc' = [loc EXCEPT ![p] = NoLoc]
\* History: the entry a new Claim call of caller p starts from; a caller
\* that counts keeps the number of 409 answers it has had.
Carried(p) ==
  [NoLog EXCEPT !.conflicts = IF scen.counting THEN log[p].conflicts ELSE 0]

\* History: the Claim call of caller p ended as entry says.
Log(p, entry) ==
  log' = IF scen.logging THEN [log EXCEPT ![p] = entry] ELSE log

\* The clock moves on, to the next instant of the model or to the instant
\* the next pending timer is due, whichever comes first.  A timer that is
\* due runs before the clock moves again.
Tick ==
  /\ now < MaxTime
  /\ LET due == {loc[p].wake : p \in {q \in Callers : pc[q] = "get_wait"}}
         next == {now + ClockStep} \cup due
     IN  /\ \A w \in due : w > now
         /\ now' = CHOOSE t \in next : \A u \in next : t <= u
  /\ Silent
  /\ Fixed
  /\ UNCHANGED <<cast, nextId, pc, loc, raced, log>>

\* POST /, up to `await c.req.json()`: nowIso is taken first.
StartBegin(p) ==
  /\ pc[p] = "idle"
  /\ nextId + Cardinality({q \in Callers : pc[q] = "start"}) <= MaxTickets
  /\ pc' = [pc EXCEPT ![p] = "start"]
  /\ loc' = [loc EXCEPT ![p] = [NoLoc EXCEPT !.nowIso = toISOString(now)]]
  /\ Silent
  /\ Fixed
  /\ UNCHANGED <<now, cast, nextId, raced, log>>

\* The row POST / inserts.
newTicket(id, skill, target, nowIso, claimMax) ==
  [id |-> id, skill |-> skill.id, target |-> target.id, startedAt |-> nowIso,
   claimed |-> 0, claimMax |-> claimMax, claimInterval |-> skill.claimInterval,
   endedAt |-> Null]

\* Faulty variant of startTransaction: the insert is lost.
startWithoutInsert(rows, created, nowIso) ==
  IF rev = "soft" THEN endActive(rows, nowIso) ELSE {}

\* db.transaction of POST /: retire what is there, insert the new row.
startTransaction(rows, created, nowIso) ==
  IF rev = "soft" THEN endActive(rows, nowIso) \cup {created} ELSE {created}

startRejected(status, kind) ==
  [NoResp EXCEPT !.op = "start", !.status = status, !.kind = kind]

startResponse(row, atMs) ==
  [NoResp EXCEPT !.op = "start", !.status = 201, !.kind = "created",
                 !.id = row.id, !.eta = nextEta(row, atMs),
                 !.claimed = row.claimed, !.claimMax = row.claimMax,
                 !.claimInterval = row.claimInterval,
                 !.startedAt = row.startedAt]

\* POST /, from the parsed body to the response.
StartCommit(p, body) ==
  /\ pc[p] = "start"
  /\ IF ~startSchemaOk(body)
       THEN /\ Send(p, startRejected(400, "invalid"))
            /\ UNCHANGED <<cast, nextId>>
     ELSE IF The(body.skillId) \notin DOMAIN SkillMap
       THEN /\ Send(p, startRejected(404, "unknown_skill"))
            /\ UNCHANGED <<cast, nextId>>
     ELSE IF The(body.targetId) \notin DOMAIN TargetMap
       THEN /\ Send(p, startRejected(404, "unknown_target"))
            /\ UNCHANGED <<cast, nextId>>
     ELSE LET created == newTicket(nextId, SkillMap[The(body.skillId)],
                                   TargetMap[The(body.targetId)],
                                   loc[p].nowIso,
                                   effectiveClaimMax(body.claimMax))
          IN  /\ cast' = startTransaction(cast, created, loc[p].nowIso)
              /\ nextId' = nextId + 1
              /\ Send(p, startResponse(created, now))
  /\ call' = NoCall
  /\ Return(p)
  /\ Fixed
  /\ UNCHANGED <<now, raced, log>>

\* Faulty variant of CancelBegin: DELETE / is held back while a GET / waits.
CancelBeginLocked(p) ==
  /\ \A q \in Callers : pc[q] # "get_wait"
  /\ pc[p] = "idle"
  /\ pc' = [pc EXCEPT ![p] = "cancel"]
  /\ loc' = [loc EXCEPT ![p] =
       IF rev = "soft" THEN [NoLoc EXCEPT !.nowIso = toISOString(now)]
                       ELSE NoLoc]
  /\ Silent
  /\ Fixed
  /\ UNCHANGED <<now, cast, nextId, raced, log>>

\* DELETE /, up to the await of its statement (the soft revision builds it
\* with the timestamp of this instant, the hard one takes no timestamp).
CancelBegin(p) ==
  /\ pc[p] = "idle"
  /\ pc' = [pc EXCEPT ![p] = "cancel"]
  /\ loc' = [loc EXCEPT ![p] =
       IF rev = "soft" THEN [NoLoc EXCEPT !.nowIso = toISOString(now)]
                       ELSE NoLoc]
  /\ Silent
  /\ Fixed
  /\ UNCHANGED <<now, cast, nextId, raced, log>>

\* Faulty variant of cancelStatement: every row is stamped, ended or not.
cancelStampAll(rows, nowIso) ==
  IF rev = "soft" THEN {[r EXCEPT !.endedAt = Some(nowIso)] : r \in rows} ELSE {}

\* The statement of DELETE /.
cancelStatement(rows, nowIso) ==
  IF rev = "soft" THEN endActive(rows, nowIso) ELSE {}

cancelResponse ==
  [NoResp EXCEPT !.op = "cancel", !.kind = "cancelled",
                 !.status = IF rev = "soft" THEN 200 ELSE 204]

\* DELETE /, its statement and the response.
CancelCommit(p) ==
  /\ pc[p] = "cancel"
  /\ cast' = cancelStatement(cast, loc[p].nowIso)
  /\ Send(p, cancelResponse)
  /\ call' = [NoCall EXCEPT !.changed =
       Cardinality(cast \ cancelStatement(cast, loc[p].nowIso))]
  /\ Return(p)
  /\ Fixed
  /\ UNCHANGED <<now, nextId, raced, log>>

\* POST /claim with no row: {status: "stopped"} or 404.
claimNoActive ==
  IF rev = "soft"
    THEN [NoResp EXCEPT !.op = "claim", !.status = 200, !.kind = "stopped"]
    ELSE [NoResp EXCEPT !.op = "claim", !.status = 404, !.kind = "notfound"]

\* POST /claim with nothing available.
claimPaused(row, atMs) ==
  LET eta == nextEta(row, atMs)
  IN  [NoResp EXCEPT !.op = "claim", !.kind = "paused",
                     !.status = IF rev = "soft" THEN 200 ELSE 202,
                     !.id = row.id, !.taken = 0, !.totalClaimed = row.claimed,
                     !.remaining = remainingOf(row), !.eta = eta,
                     !.retryAfter = IF rev = "hard" /\ eta > 0
                                      THEN Some(CeilSeconds(eta)) ELSE Null,
                     !.retryAfterMs = IF rev = "hard" /\ eta > 0
                                        THEN Some(eta) ELSE Null]

claimOk(updated, take, atMs) ==
  [NoResp EXCEPT !.op = "claim", !.status = 200, !.kind = "ok",
                 !.id = updated.id, !.taken = take,
                 !.totalClaimed = updated.claimed,
                 !.remaining = remainingOf(updated),
                 !.eta = nextEta(updated, atMs)]

claimConflict ==
  [NoResp EXCEPT !.op = "claim", !.status = 409, !.kind = "conflict"]

\* POST /claim, from getActive to the response (no row, nothing available)
\* or to the await of the conditional update.
ClaimRead(p, limit) ==
  /\ pc[p] = "idle"
  /\ IF getActive = {}
       THEN /\ Send(p, claimNoActive)
            /\ call' = NoCall
            /\ Log(p, [Carried(p) EXCEPT !.kind = claimNoActive.kind])
            /\ UNCHANGED <<pc, loc>>
       ELSE \E row \in getActive :
              LET available == availableRuns(row, now)
              IN  IF available = 0
                    THEN /\ Send(p, claimPaused(row, now))
                         /\ call' = [NoCall EXCEPT !.seenId = row.id,
                                                   !.seenClaimed = row.claimed]
                         /\ Log(p, [Carried(p) EXCEPT !.kind = "paused",
                                                 !.seenId = row.id,
                                                 !.seenClaimed = row.claimed])
                         /\ UNCHANGED <<pc, loc>>
                    ELSE /\ pc' = [pc EXCEPT ![p] = "claim"]
                         /\ loc' = [loc EXCEPT ![p] =
                              [NoLoc EXCEPT !.row = row,
                                            !.take = takeOf(limit, available)]]
                         /\ Silent
                         /\ Log(p, [Carried(p) EXCEPT !.kind = "reading",
                                                 !.seenId = row.id,
                                                 !.seenClaimed = row.claimed,
                                                 !.avail = available])
  /\ Fixed
  /\ UNCHANGED <<now, cast, nextId, raced>>

\* Faulty variant of ClaimWrite: when the conditional update changes no row it is
\* issued once more, against the row as it is now.
ClaimWriteRetry(p) ==
  /\ pc[p] = "claim"
  /\ LET row == loc[p].row
         take == loc[p].take
         first == claimReturning(cast, row, take)
         fresh == {r \in cast : r.id = row.id}
         again == IF first # {} \/ fresh = {} THEN {}
                  ELSE claimReturning(cast, The(fresh), take)
         returned == first \cup again
         target == IF first # {} \/ fresh = {} THEN row ELSE The(fresh)
     IN  /\ cast' = claimUpdate(cast, target, take)
         /\ call' = [NoCall EXCEPT !.seenId = row.id,
                                   !.seenClaimed = row.claimed,
                                   !.take = take,
                                   !.updates = IF first # {} THEN 1 ELSE 2,
                                   !.raced = raced[p]]
         /\ IF returned # {}
              THEN /\ Send(p, claimOk(The(returned), take, now))
                   /\ Log(p, [log[p] EXCEPT !.kind = "ok", !.taken = take])
                   /\ raced' = [q \in Callers |->
                        q # p /\ pc[q] = "claim"
                              /\ (raced[q] \/ loc[q].row.id = row.id)]
              ELSE /\ Send(p, claimConflict)
                   /\ Log(p, [log[p] EXCEPT !.kind = "conflict",
                                                 !.conflicts = @ + 1])
                   /\ raced' = [raced EXCEPT ![p] = FALSE]
  /\ Return(p)
  /\ Fixed
  /\ UNCHANGED <<now, nextId>>

\* POST /claim, the conditional update and the response.
ClaimWrite(p) ==
  /\ pc[p] = "claim"
  /\ LET row == loc[p].row
         take == loc[p].take
         returned == claimReturning(cast, row, take)
         seen == [NoCall EXCEPT !.seenId = row.id, !.seenClaimed = row.claimed,
                                !.take = take, !.updates = 1,
                                !.raced = raced[p]]
     IN  /\ cast' = claimUpdate(cast, row, take)
         /\ call' = seen
         /\ IF returned # {}
              THEN /\ Send(p, claimOk(The(returned), take, now))
                   /\ Log(p, [log[p] EXCEPT !.kind = "ok", !.taken = take])
                   /\ raced' = [q \in Callers |->
                        q # p /\ pc[q] = "claim"
                              /\ (raced[q] \/ loc[q].row.id = row.id)]
              ELSE /\ Send(p, claimConflict)
                   /\ Log(p, [log[p] EXCEPT !.kind = "conflict",
                                                 !.conflicts = @ + 1])
                   /\ raced' = [raced EXCEPT ![p] = FALSE]
  /\ Return(p)
  /\ Fixed
  /\ UNCHANGED <<now, nextId>>

\* The 200 or 202 of GET /.
getResponse(row, atEnd) ==
  LET available == availableRuns(row, atEnd)
      done == finished(row, atEnd)
      retryMs == nextEta(row, atEnd)
      base == [NoResp EXCEPT !.op = "get", !.id = row.id,
                             !.claimed = row.claimed,
                             !.claimMax = row.claimMax,
                             !.claimInterval = row.claimInterval,
                             !.finished = done, !.etag = etagFor(row)]
  IN  IF available = 0
        THEN [base EXCEPT !.status = 202, !.kind = "not_ready",
                          !.eta = retryMs,
                          !.retryAfter = IF retryMs > 0
                                           THEN Some(CeilSeconds(retryMs))
                                           ELSE Null,
                          !.retryAfterMs = IF retryMs > 0 THEN Some(retryMs)
                                           ELSE Null]
        ELSE [base EXCEPT !.status = 200, !.kind = "ready", !.eta = 0,
                          !.available = available]

getNotFound == [NoResp EXCEPT !.op = "get", !.status = 404, !.kind = "notfound"]

getNotModified(tag) ==
  [NoResp EXCEPT !.op = "get", !.status = 304, !.kind = "not_modified",
                 !.etag = tag]

\* Faulty variant of notModified: If-None-Match is ignored.
notModifiedNever(inm, tag) == FALSE

\* inm && inm === tag
notModified(inm, tag) == inm # NoTag /\ inm = tag

\* Faulty variant of sleepFor: the whole requested wait is slept.
sleepWhole(eta, waitMs) == waitMs

\* Math.min(eta, waitMs), the delay of the timer
sleepFor(eta, waitMs) == Min2(eta, waitMs)

\* GET / (hard revision only: the soft one has no such route), from
\* getActive to the response or to the await of the timer.
GetLoad(p, inm, prefer) ==
  /\ rev = "hard"
  /\ pc[p] = "idle"
  /\ IF getActive = {}
       THEN /\ Send(p, getNotFound)
            /\ UNCHANGED <<pc, loc>>
       ELSE \E row \in getActive :
              LET atStart == now
                  tag == etagFor(row)
                  waitMs == clamp(preferWait(prefer), 0, PREFER_WAIT_MAX_MS)
                  eta == nextEta(row, atStart)
              IN  IF notModified(inm, tag)
                    THEN /\ Send(p, getNotModified(tag))
                         /\ UNCHANGED <<pc, loc>>
                  ELSE IF eta > 0 /\ waitMs > 0
                    THEN /\ pc' = [pc EXCEPT ![p] = "get_wait"]
                         /\ loc' = [loc EXCEPT ![p] =
                              [NoLoc EXCEPT !.row = row,
                                            !.wake = now + sleepFor(eta, waitMs)]]
                         /\ resp' = NoResp
                  ELSE /\ Send(p, getResponse(row, now))
                       /\ UNCHANGED <<pc, loc>>
  /\ call' = NoCall
  /\ Fixed
  /\ UNCHANGED <<now, cast, nextId, raced, log>>

\* Faulty variant of GetResume: the run the Get reports is claimed by it.
GetConsume(p) ==
  /\ pc[p] = "get_wait"
  /\ now >= loc[p].wake
  /\ Send(p, getResponse(loc[p].row, now))
  /\ cast' = claimUpdate(cast, loc[p].row, availableRuns(loc[p].row, now))
  /\ call' = NoCall
  /\ Return(p)
  /\ Fixed
  /\ UNCHANGED <<now, nextId, raced, log>>

\* Faulty variant of GetResume: the ticket is loaded again after the timer.
GetReload(p) ==
  /\ pc[p] = "get_wait"
  /\ now >= loc[p].wake
  /\ IF getActive = {}
       THEN Send(p, getNotFound)
       ELSE \E row \in getActive : Send(p, getResponse(row, now))
  /\ call' = NoCall
  /\ Return(p)
  /\ Fixed
  /\ UNCHANGED <<now, cast, nextId, raced, log>>

\* GET /, after the timer: the response, from the row loaded before it.
GetResume(p) ==
  /\ pc[p] = "get_wait"
  /\ now >= loc[p].wake
  /\ Send(p, getResponse(loc[p].row, now))
  /\ call' = NoCall
  /\ Return(p)
  /\ Fixed
  /\ UNCHANGED <<now, cast, nextId, raced, log>>

\* The tags a client can send in If-None-Match: none, the one it was just
\* given, or the tag of a stored row.
Tags == {NoTag, resp.etag} \cup {etagFor(r) : r \in cast}

(* ---------------------------- specification --------------------------- *)

NoArg == [limit |-> Absent, available |-> 0]
NoScen == [logging |-> FALSE, k0 |-> 0, counting |-> FALSE]

\* The server after start-up, for a set of callers.
Started(callers) ==
  /\ pc = [p \in callers |-> "idle"]
  /\ loc = [p \in callers |-> NoLoc]
  /\ raced = [p \in callers |-> FALSE]
  /\ log = [p \in callers |-> NoLog]
  /\ resp = NoResp
  /\ call = NoCall

Init ==
  /\ rev \in Revisions
  /\ env \in EnvSettings
  /\ now = 0
  /\ cast = {}
  /\ nextId = 1
  /\ Started(Procs)
  /\ scen = NoScen
  /\ arg = NoArg
  /\ out = Null

Next ==
  \/ Tick
  \/ \E p \in Callers : StartBegin(p)
  \/ \E p \in Callers : \E body \in Bodies : StartCommit(p, body)
  \/ \E p \in Callers : CancelBegin(p)
  \/ \E p \in Callers : CancelCommit(p)
  \/ \E p \in Callers : \E limit \in Limits : ClaimRead(p, limit)
  \/ \E p \in Callers : ClaimWrite(p)
  \/ \E p \in Callers : \E inm \in Tags : \E prefer \in Prefers :
       GetLoad(p, inm, prefer)
  \/ \E p \in Callers : GetResume(p)

Spec == Init /\ [][Next]_vars

(* ------------------------ scenario: a claim race ---------------------- *)

\* A ticket as Start leaves it and Claim calls advance it: started at 0,
\* claimed c out of what has elapsed at instant t.
RaceRows ==
  {[newTicket(1, SkillMap["fishing"], TargetMap["little_pond"],
              toISOString(0), cm) EXCEPT !.claimed = c] :
     cm \in {Some(1), Some(2), Null}, c \in 0 .. UNLIMITED_CAP}

\* The callers are about to claim from the one active ticket, of which
\* scen.k0 runs are available.
RaceInit(callers) ==
  /\ rev \in Revisions
  /\ env \in EnvSettings
  /\ now \in {t * ClockStep : t \in 0 .. MaxSteps + 1}
  /\ \E row \in RaceRows :
       /\ row.claimed <= Min2(ticksElapsed(row, now), maxRuns(row))
       /\ cast = {row}
       /\ scen = [logging |-> TRUE, k0 |-> availableRuns(row, now),
                  counting |-> FALSE]
  /\ nextId = 2
  /\ Started(callers)
  /\ arg = NoArg
  /\ out = Null

\* N callers race while the clock stands still.
InitRace == RaceInit(RaceProcs)

\* Each caller makes one Claim call.
RaceRead(p) == log[p].kind = "none" /\ \E limit \in Limits : ClaimRead(p, limit)

NextRace ==
  \/ \E p \in Callers : RaceRead(p)
  \/ \E p \in Callers : ClaimWrite(p)

SpecRace == InitRace /\ [][NextRace]_vars

(* --------------------- scenario: claims on one ticket ----------------- *)

\* Callers claim from one ticket, any number of times, while the clock
\* runs and the ticket may be cancelled; how each call ended is kept.
NextClaims ==
  \/ Tick
  \/ \E p \in Callers : \E limit \in Limits : ClaimRead(p, limit)
  \/ \E p \in Callers : ClaimWrite(p)
  \/ \E p \in Callers : CancelBegin(p)
  \/ \E p \in Callers : CancelCommit(p)

InitClaims == RaceInit(Procs)

SpecClaims == InitClaims /\ [][NextClaims]_vars

(* --------------------- scenario: a caller that retries --------------- *)

\* The caller that re-issues its Claim after every 409.
Retrier == "p1"

\* As InitClaims, on a ticket with runs left; the 409 answers are counted.
InitRetry ==
  /\ rev \in Revisions
  /\ env \in EnvSettings
  /\ now \in {t * ClockStep : t \in 0 .. MaxSteps + 1}
  /\ \E row \in RaceRows :
       /\ row.claimed <= Min2(ticksElapsed(row, now), maxRuns(row))
       /\ cast = {row}
       /\ scen = [logging |-> TRUE, k0 |-> availableRuns(row, now),
                  counting |-> TRUE]
  /\ nextId = 2
  /\ Started(Procs)
  /\ arg = NoArg
  /\ out = Null

\* The retrier issues POST /claim, and again after a 409; it stops at
\* any other answer.
RetryRead(p) ==
  /\ p = Retrier
  /\ log[p].kind \in {"none", "conflict"}
  /\ \E limit \in Limits : ClaimRead(p, limit)

\* The other callers claim whenever they like.
OtherRead(p) ==
  /\ p # Retrier
  /\ \E limit \in Limits : ClaimRead(p, limit)

\* Nobody cancels or starts: the ticket stays the active one.
NextRetry ==
  \/ Tick
  \/ \E p \in Callers : RetryRead(p)
  \/ \E p \in Callers : OtherRead(p)
  \/ \E p \in Callers : ClaimWrite(p)

\* The retrier does re-issue, and a handler that was started runs on.
SpecRetry ==
  /\ InitRetry
  /\ [][NextRetry]_vars
  /\ WF_vars(RetryRead(Retrier))
  /\ WF_vars(ClaimWrite(Retrier))

(* --------------------- scenario: the configured default --------------- *)

\* Settings of CAST_DEFAULT_CLAIM_MAX: unset, empty, the words for
\* "unlimited" in two spellings, other text, numbers and infinities.
EnvInputs ==
  {Absent, Text(""), Text("null"), Text("NULL"), Text("unlimited"),
   Text("Unlimited"), Text("all"), InfText(1), InfText(0 - 1)}
  \cup {NumText(n, d) : n \in (0 - 1) .. MaxNum, d \in {1, 2}}

\* The server after start-up under any of these settings.
InitConfig ==
  /\ rev \in Revisions
  /\ env \in EnvInputs
  /\ now = 0
  /\ cast = {}
  /\ nextId = 1
  /\ Started(Procs)
  /\ scen = NoScen
  /\ arg = NoArg
  /\ out = Null

\* Callers start tickets.
NextConfig ==
  \/ \E p \in Callers : StartBegin(p)
  \/ \E p \in Callers : \E body \in Bodies : StartCommit(p, body)

SpecConfig == InitConfig /\ [][NextConfig]_vars

(* ------------------------- scenario: polling -------------------------- *)

\* Prefer headers of a polling client: none, a wait shorter than the
\* interval, a longer one, one beyond CAST_PREFER_WAIT_MAX_MS.
PollPrefers == {Absent, Wait(500), Wait(5000), Wait(20000)}

\* The revision with GET /, a ticket just started at instant 0.
InitPoll ==
  /\ rev = "hard"
  /\ env \in EnvSettings
  /\ now = 0
  /\ \E row \in RaceRows : row.claimed = 0 /\ cast = {row}
  /\ nextId = 2
  /\ Started(Procs)
  /\ scen = NoScen
  /\ arg = NoArg
  /\ out = Null

\* GET / with a wait is issued while the clock of the model still runs.
PollLoad(p) ==
  \E inm \in Tags : \E prefer \in PollPrefers :
    /\ preferWait(prefer) > 0 => now + ClockStep <= MaxTime
    /\ GetLoad(p, inm, prefer)

\* Callers poll, claim, cancel and start while the clock runs.
NextPoll ==
  \/ Tick
  \/ \E p \in Callers : PollLoad(p)
  \/ \E p \in Callers : GetResume(p)
  \/ \E p \in Callers : \E limit \in Limits : ClaimRead(p, limit)
  \/ \E p \in Callers : ClaimWrite(p)
  \/ \E p \in Callers : CancelBegin(p)
  \/ \E p \in Callers : CancelCommit(p)
  \/ \E p \in Callers : StartBegin(p)
  \/ \E p \in Callers : \E body \in Bodies : StartCommit(p, body)

SpecPoll == InitPoll /\ [][NextPoll]_vars

\* The event loop runs a timer that is due, and time passes.
SpecPollFair ==
  /\ SpecPoll
  /\ WF_vars(Tick)
  /\ \A p \in Procs : WF_vars(GetResume(p))

(* ----------------------- scenario: one Get call ----------------------- *)

\* The instants a Get is issued at.
WaitInstants == {t * 500 : t \in 0 .. (MaxTime \div 500) - 1}

\* One caller; at instant arg.atStart the active ticket has nothing
\* available and runs left.
InitWait ==
  /\ rev = "hard"
  /\ env \in EnvSettings
  /\ now \in WaitInstants
  /\ \E row \in RaceRows :
       /\ availableRuns(row, now) = 0
       /\ row.claimed = ticksElapsed(row, now)
       /\ row.claimed < maxRuns(row)
       /\ cast = {row}
  /\ nextId = 2
  /\ Started({"p1"})
  /\ scen = NoScen
  /\ arg \in [prefer : PollPrefers, atStart : {now}]
  /\ out = Null

\* GET / with the Prefer header of the scenario, at arg.atStart.
WaitLoad(p) ==
  /\ now = arg.atStart
  /\ GetLoad(p, NoTag, arg.prefer)

\* The Get call and the clock, nothing else.
NextWait ==
  \/ Tick
  \/ \E p \in Callers : WaitLoad(p)
  \/ \E p \in Callers : GetResume(p)

SpecWait == InitWait /\ [][NextWait]_vars

(* ------------------------ scenario: tick calculator ------------------ *)

\* Tickets as a Start stores them and Claims advance them: an interval of
\* at least 1 ms, claimMax null or at least 1, claimed within maxRuns.
TickRows ==
  {[newTicket(1, [id |-> "fishing", claimInterval |-> i],
              TargetMap["little_pond"], toISOString(s), cm)
      EXCEPT !.claimed = c] :
     i \in {1, 3, 250, FishingInterval}, s \in {0, 1000},
     cm \in {Null} \cup {Some(m) : m \in 1 .. UNLIMITED_CAP + 1},
     c \in 0 .. UNLIMITED_CAP + 1}

\* Clock readings, as offsets from startedAt: before it, at it, around the
\* multiples of the intervals.
TickOffsets ==
  {0 - 2001, 0 - 2000, 0 - 500, 0 - 250, 0 - 3, 0 - 1, 0, 1, 2, 3, 4, 6, 249,
   250, 251, 500, 750, 1999, 2000, 2001, 3999, 4000, 4500, 6000, 8000}

InitCalc ==
  /\ rev \in Revisions
  /\ env \in EnvSettings
  /\ now = 0
  /\ cast = {}
  /\ nextId = 1
  /\ Started(Procs)
  /\ scen = NoScen
  /\ \E row \in TickRows : \E d \in TickOffsets :
       /\ row.claimed <= maxRuns(row)
       /\ arg = [row |-> row, atMs |-> toMs(row.startedAt) + d]
  /\ out = Null

\* The tick calculator, applied to the ticket and the clock reading.
Calc ==
  /\ out = Null
  /\ out' = Some([ticks |-> ticksElapsed(arg.row, arg.atMs),
                  maxRuns |-> maxRuns(arg.row),
                  available |-> availableRuns(arg.row, arg.atMs),
                  eta |-> nextEta(arg.row, arg.atMs)])
  /\ UNCHANGED <<rev, env, now, cast, nextId, pc, loc, resp, call, raced, log,
                 scen, arg>>

SpecCalc == InitCalc /\ [][Calc]_vars

(* ------------------------ scenario: take of a claim ------------------- *)

LimitInputs ==
  {Absent, Text(""), Text("all"), InfText(1), InfText(0 - 1)}
  \cup {NumText(n, d) : n \in (0 - MaxNum) .. MaxNum, d \in {1, 2}}

InitTake ==
  /\ rev = "soft"
  /\ env \in EnvSettings
  /\ now = 0
  /\ cast = {}
  /\ nextId = 1
  /\ Started(Procs)
  /\ scen = NoScen
  /\ arg \in [limit : LimitInputs, available : 1 .. MaxAvail]
  /\ out = Null

\* The take computation of POST /claim, applied to the input.
Take ==
  /\ out = Null
  /\ out' = Some(takeOf(arg.limit, arg.available))
  /\ UNCHANGED <<rev, env, now, cast, nextId, pc, loc, resp, call, raced, log,
                 scen, arg>>

SpecTake == InitTake /\ [][Take]_vars


(* ------------------------------ properties ---------------------------- *)

ActiveRows == {r \in cast : r.endedAt = Null}

\* C1: in every reachable state, concurrent Start calls included, at most
\* one ticket has endedAt = null.
C1_AtMostOneActive == Cardinality(ActiveRows) <= 1

\* Two Start calls overlapped: the ended ticket was created by the call
\* that took its timestamp last and was retired by the one that took it
\* first, whose ticket is the active one.
C1_Witness ==
  \E a \in ActiveRows : \E e \in cast \ ActiveRows :
    /\ toMs(a.startedAt) < toMs(e.startedAt)
    /\ a.id > e.id

\* C2: under any interleaving of Claim calls and any limits, every ticket
\* has 0 <= claimed <= effectiveMax.
C2_ClaimedWithinMax ==
  \A r \in cast : 0 <= r.claimed /\ r.claimed <= maxRuns(r)

\* A Claim call has just lost a race on a ticket whose counter stands at
\* its maximum.
C2_Witness ==
  /\ resp.kind = "conflict"
  /\ call.raced
  /\ \E r \in cast : r.id = call.seenId /\ r.claimed = maxRuns(r)
                                        /\ r.claimed > 0

AllDone == \A p \in Callers : log[p].kind \in {"ok", "conflict", "paused"}

Taken(p) == IF log[p].kind = "ok" THEN log[p].taken ELSE 0

RECURSIVE SumTaken(_)
SumTaken(S) ==
  IF S = {} THEN 0
  ELSE LET p == CHOOSE q \in S : TRUE IN Taken(p) + SumTaken(S \ {p})

\* C3 as stated: with K runs available and N Claim calls racing, with or
\* without a limit, the taken of the successful calls add up to exactly K,
\* every other call ends in Conflict or Paused, and claimed never exceeds
\* maxRuns.
C3_SumEqualsK ==
  AllDone =>
    /\ SumTaken(Callers) = scen.k0
    /\ \A r \in cast : r.claimed <= maxRuns(r)

\* C3: with K runs available and N Claim calls racing, the taken of the
\* successful calls add up to at most K, to at least 1 when K >= 1, and to
\* exactly K when a successful call took all it found available (as a call
\* without limit does); every other call ends in Conflict or Paused, and
\* claimed never exceeds maxRuns.
C3_SumWithinK ==
  /\ SumTaken(Callers) <= scen.k0
  /\ \A r \in cast : r.claimed <= maxRuns(r)
  /\ AllDone =>
       /\ scen.k0 >= 1 => SumTaken(Callers) >= 1
       /\ (\E p \in Callers : log[p].kind = "ok"
                              /\ log[p].taken = log[p].avail)
            => SumTaken(Callers) = scen.k0

\* All the calls have returned: one took part of what was available, one
\* lost the race, and the taken add up to less than K.
C3_Witness ==
  /\ AllDone
  /\ \E p \in Callers : log[p].kind = "ok" /\ log[p].taken < log[p].avail
  /\ \E p \in Callers : log[p].kind = "conflict"
  /\ SumTaken(Callers) < scen.k0

SameRead(p, q) ==
  /\ p # q
  /\ log[p].kind \in {"ok", "conflict", "paused"}
  /\ log[q].kind \in {"ok", "conflict", "paused"}
  /\ log[p].seenId = log[q].seenId
  /\ log[p].seenClaimed = log[q].seenClaimed

\* C4 as stated: of the Claim calls that read the same ticket with the
\* same claimed, at most one succeeds and every other one returns Conflict.
C4_OthersConflict ==
  \A p, q \in Callers :
    (SameRead(p, q) /\ log[p].kind = "ok") => log[q].kind = "conflict"

\* C4: of the Claim calls that read the same ticket with the same claimed,
\* at most one has its conditional update applied and succeeds, and every
\* other one that issues its conditional update returns Conflict.
C4_OthersThatWriteConflict ==
  \A p, q \in Callers :
    (SameRead(p, q) /\ log[p].kind = "ok") =>
       /\ log[q].kind # "ok"
       /\ log[q].kind # "paused" => log[q].kind = "conflict"

\* Two calls read the same ticket and counter; one succeeded and the other
\* returned Conflict.
C4_Witness ==
  \E p, q \in Callers :
    SameRead(p, q) /\ log[p].kind = "ok" /\ log[q].kind = "conflict"

\* C5: a Claim call that returns Conflict changed no ticket field and
\* issued exactly one conditional update, without retrying.
C5_ConflictWritesNothing ==
  [][resp'.kind = "conflict" => (cast' = cast /\ call'.updates = 1)]_vars

\* A Claim call has just returned Conflict after another call's increment.
C5_Witness ==
  /\ resp.kind = "conflict"
  /\ call.updates = 1
  /\ \E r \in cast : r.id = call.seenId /\ r.claimed > call.seenClaimed


\* C6: a Claim call returns Conflict only when another Claim call's
\* increment was applied between its read and its conditional update,
\* never because of a Cancel or a Start.
C6_ConflictOnlyFromClaim == resp.kind = "conflict" => call.raced

\* C7: a Claim call that finds availableRuns = 0 returns Paused, status
\* 202 and taken 0, writes nothing, and carries the ticket's claimed,
\* remaining = effectiveMax - claimed and a nextEta > 0.
C7_PausedIs202 ==
  [][resp'.kind = "paused" =>
       /\ resp'.status = 202
       /\ resp'.taken = 0
       /\ cast' = cast
       /\ \E r \in cast : /\ r.id = resp'.id
                          /\ availableRuns(r, now) = 0
                          /\ resp'.totalClaimed = r.claimed
                          /\ resp'.remaining = maxRuns(r) - r.claimed
       /\ resp'.eta > 0]_vars

\* C8: when no ticket has endedAt = null, both Get and Claim fail with
\* NotFound, status 404, and change no state.
C8_NoActiveIs404 ==
  [][(resp'.op \in {"claim", "get"} /\ pc[resp'.to] = "idle"
                                     /\ ActiveRows = {})
       => (resp'.status = 404 /\ cast' = cast /\ nextId' = nextId)]_vars

\* What the claim gives for the take of limit out of A available runs.
ExpectedTake(limit, A) ==
  IF limit.kind \in {"absent", "inf"} \/ (limit.kind = "text" /\ limit.s # "")
    THEN A
    ELSE LET q == IF limit.kind = "text" THEN 0
                  ELSE IF limit.num >= 0 THEN limit.num \div limit.den
                  ELSE -((-limit.num + limit.den - 1) \div limit.den)
             atLeastOne == IF q < 1 THEN 1 ELSE q
         IN  IF atLeastOne < A THEN atLeastOne ELSE A

\* C9: the take of a successful Claim that finds A >= 1 runs available is
\* A when limit is omitted or not finite, min(max(1, floor(limit)), A)
\* otherwise; in every case 1 <= taken <= A.
C9_TakeWithinAvailable ==
  out # Null =>
    /\ The(out) = ExpectedTake(arg.limit, arg.available)
    /\ 1 <= The(out)
    /\ The(out) <= arg.available

\* A limit below 1 was raised to 1 although more runs were available.
C9_Witness ==
  /\ out = Some(1)
  /\ arg.available > 1
  /\ arg.limit.kind = "num"
  /\ arg.limit.num <= 0

\* C10: a successful Claim that observed claimed = c and took t leaves the
\* stored claimed at c + t and returns taken = t, totalClaimed = c + t and
\* remaining = effectiveMax - (c + t) >= 0.
C10_ClaimAddsTake ==
  resp.kind = "ok" =>
    LET c == call.seenClaimed
        t == call.take
    IN  /\ \E r \in cast : /\ r.id = call.seenId
                           /\ r.claimed = c + t
                           /\ resp.remaining = maxRuns(r) - (c + t)
        /\ resp.taken = t
        /\ resp.totalClaimed = c + t
        /\ resp.remaining >= 0

\* A call that found the counter already advanced has taken one more run.
C10_Witness ==
  /\ resp.kind = "ok"
  /\ call.seenClaimed >= 1
  /\ call.take >= 1
  /\ resp.totalClaimed = call.seenClaimed + call.take


\* C11: the two writes of Start are one step for every observer: a Start
\* that supersedes an active ticket takes the store from one active ticket
\* to exactly one, the new one, with no state in between in which a Get or
\* a Claim finds none or two; a Start that does not insert ends nothing.
C11_StartAtomic ==
  [][resp'.op = "start" =>
       IF resp'.kind = "created"
         THEN /\ Cardinality(getActive') = 1
              /\ \A r \in getActive' : /\ r.id = resp'.id
                                       /\ r \notin cast
                                       /\ r.endedAt = Null
              /\ \A r \in ActiveRows : r \notin cast'
              /\ Cardinality(ActiveRows') = 1
         ELSE cast' = cast]_vars

\* A Start has just superseded the ticket that a Claim in flight had read.
C11_Witness ==
  /\ resp.kind = "created"
  /\ \E q \in Callers : /\ pc[q] = "claim"
                        /\ loc[q].row.id # resp.id
                        /\ loc[q].row.endedAt = Null
                        /\ loc[q].row \notin cast


\* The ticket the last completed Start created.
LatestId == nextId - 1

\* C12: a Start that completes while a ticket T is active leaves T stored
\* with endedAt set and the new ticket with claimed = 0 and endedAt = null,
\* and every Get and Claim issued afterwards, until the next Start or
\* Cancel, operates on the new ticket's id, never on T.
C12_StartSupersedes ==
  [][/\ resp'.kind = "created" =>
          /\ \A T \in ActiveRows :
               \E r \in cast' : r.id = T.id /\ r.endedAt # Null
          /\ \E n \in cast' : /\ n.id = resp'.id
                              /\ n.claimed = 0
                              /\ n.endedAt = Null
     /\ \A p \in Callers :
          pc[p] = "idle" =>
            /\ (resp'.to = p /\ resp'.op \in {"claim", "get"} /\ resp'.id # 0)
                 => resp'.id = LatestId
            /\ pc'[p] \in {"claim", "get_wait"}
                 => loc'[p].row.id = LatestId]_vars


\* C13: no operation removes a ticket: the stored ids only grow, after n
\* successful Start calls and any number of Cancel calls exactly n tickets
\* are stored, and an ended ticket stays stored with its endedAt set.
C13_NeverDeleted ==
  [][/\ \A r \in cast : \E q \in cast' : q.id = r.id
     /\ Cardinality(cast') = nextId' - 1
     /\ \A r \in cast :
          r.endedAt # Null => \E q \in cast' : q.id = r.id /\ q.endedAt # Null]_vars


\* C14: a ticket moves only from Active to Ended, and only through a
\* Cancel or a superseding Start: once endedAt is set it is never cleared
\* and never changes, whatever Start, Cancel, Claim and Get do later.
C14_EndedStaysEnded ==
  [][\A r \in cast : \A q \in cast' :
       q.id = r.id =>
         /\ r.endedAt # Null => q.endedAt = r.endedAt
         /\ (r.endedAt = Null /\ q.endedAt # Null)
              => (resp'.op = "cancel" \/ resp'.kind = "created")]_vars

\* A ticket was ended, and a Start that took its timestamp later has
\* created the active ticket without touching it.
C14_Witness ==
  \E e \in cast \ ActiveRows : \E a \in ActiveRows :
    /\ toMs(The(e.endedAt)) < toMs(a.startedAt)
    /\ e.id < a.id


\* C15: Cancel is idempotent: with no active ticket it succeeds without
\* error and leaves every stored ticket unchanged, and a Cancel after a
\* Cancel, at the same or at a later instant, changes nothing more (the
\* endedAt written by the first is not overwritten).
C15_CancelIdempotent ==
  [][resp'.op = "cancel" =>
       /\ resp'.status \in {200, 204}
       /\ ActiveRows = {} => cast' = cast
       /\ cancelStatement(cast', toISOString(now)) = cast'
       /\ cancelStatement(cast', toISOString(now + ClockStep)) = cast']_vars

\* A Cancel has just succeeded although no ticket was active: its statement
\* changed no row, and the ticket ended before it is still stored.
C15_Witness ==
  /\ resp.kind = "cancelled"
  /\ call.changed = 0
  /\ \E r \in cast : r.endedAt # Null /\ toMs(The(r.endedAt)) < now


\* Tickets have been created and none is active: a Cancel has completed
\* and no Start has completed since.
Cancelled == nextId > 1 /\ ActiveRows = {}

\* C16: after a Cancel completes no ticket is active: every Get and every
\* Claim issued after it and before the next Start returns NotFound, and
\* no Claim issued in that period changes a claimed counter.
C16_NotFoundAfterCancel ==
  [][Cancelled =>
       \A p \in Callers :
         pc[p] = "idle" =>
           /\ (resp'.to = p /\ resp'.op \in {"claim", "get"})
                => (resp'.kind = "notfound" /\ resp'.status = 404
                                            /\ cast' = cast)
           /\ pc'[p] \notin {"claim", "get_wait"}]_vars


\* Caller p issues a Get in this step.
GetIssued(p) ==
  /\ pc[p] = "idle"
  /\ (resp'.to = p /\ resp'.op = "get") \/ pc'[p] = "get_wait"

\* What the Get following a Start is to return.
SameTicketNotReady ==
  /\ resp'.op = "get"
  /\ resp'.status = 202
  /\ resp'.id = resp.id
  /\ resp'.claimed = 0
  /\ resp'.claimMax = resp.claimMax
  /\ resp'.claimInterval = resp.claimInterval
  /\ resp'.eta = resp.claimInterval

\* C17 as stated: a successful Start returns claimed = 0 and eta =
\* claimInterval, and a Get issued immediately afterwards (no time elapsed,
\* nothing in between) returns the same id, claimed = 0, the same claimMax
\* and claimInterval, eta = claimInterval and status 202.
C17_StartThenGet ==
  [][/\ resp'.kind = "created" =>
          (resp'.claimed = 0 /\ resp'.eta = resp'.claimInterval)
     /\ (resp.kind = "created" /\ \E p \in Callers : GetIssued(p))
          => SameTicketNotReady]_vars

\* C17: a successful Start returns claimed = 0 and, when no time has
\* elapsed since it took its timestamp, eta = claimInterval; a Get issued
\* immediately afterwards (no time elapsed since that timestamp, nothing in
\* between) that carries no matching If-None-Match tag and no Prefer wait
\* returns the same id, claimed = 0, the same claimMax and claimInterval,
\* eta = claimInterval and status 202.
C17_StartThenPlainGet ==
  [][/\ resp'.kind = "created" =>
          /\ resp'.claimed = 0
          /\ toMs(resp'.startedAt) = now' => resp'.eta = resp'.claimInterval
     /\ (/\ resp.kind = "created"
         /\ toMs(resp.startedAt) = now
         /\ resp'.op = "get"
         /\ resp'.kind # "not_modified"
         /\ pc[resp'.to] = "idle")
          => SameTicketNotReady]_vars

\* A Get has just answered 202 for a ticket started at this very instant.
C17_Witness ==
  /\ resp.op = "get"
  /\ resp.status = 202
  /\ resp.claimed = 0
  /\ resp.eta = resp.claimInterval
  /\ \E r \in cast : r.id = resp.id /\ toMs(r.startedAt) = now


\* The bodies the claim calls invalid: a field missing, a claimMax that is
\* a number below 1 or not whole, an unknown skill or an unknown target.
RejectedBody(body) ==
  \/ body.skillId = Null
  \/ body.targetId = Null
  \/ /\ body.claimMax.kind = "number"
     /\ \/ body.claimMax.num < body.claimMax.den
        \/ body.claimMax.num % body.claimMax.den # 0
  \/ body.skillId # Some("fishing")
  \/ body.targetId # Some("little_pond")

\* C18: a Start that fails validation (malformed body, claimMax below 1,
\* unknown skill or target) returns 400 or 404 and leaves the store as it
\* is: the active ticket is not ended and no ticket is inserted; any other
\* body is accepted.
C18_RejectedStartWritesNothing ==
  [][\A p \in Callers : \A body \in Bodies :
       StartCommit(p, body) =>
         IF RejectedBody(body)
           THEN /\ resp'.status \in {400, 404}
                /\ cast' = cast
                /\ nextId' = nextId
           ELSE resp'.status = 201]_vars

\* A Start has just been refused while a ticket is active.
C18_Witness ==
  /\ resp.op = "start"
  /\ resp.status = 400
  /\ ActiveRows # {}


\* The default the claim gives for a setting, the words compared as they
\* are written.
DefaultAsWritten(v) ==
  IF v.kind = "text" /\ v.s \in {"null", "unlimited"} THEN Null
  ELSE IF v.kind = "num" /\ v.num >= v.den THEN Some(v.num \div v.den)
  ELSE Some(1)

\* The same, the words compared without regard to letter case.
DefaultAnyCase(v) ==
  IF v.kind = "text" /\ v.s \in {"null", "NULL", "unlimited", "Unlimited"}
    THEN Null
  ELSE IF v.kind = "num" /\ v.num >= v.den THEN Some(v.num \div v.den)
  ELSE Some(1)

\* The claimMax the claim has Start store for a body field, given the default.
StoredClaimMax(cm, default) ==
  IF cm.kind = "undefined" THEN default
  ELSE IF cm.kind = "null" THEN Null
  ELSE Some(cm.num \div cm.den)

\* C19 as stated: Start stores the request's claimMax when the field is
\* present, null included, and the configured default only when it is
\* omitted; the default is null for the settings "null" and "unlimited",
\* floor(n) for a number n >= 1 and 1 for every other setting.
C19_DefaultAsWritten ==
  [][\A p \in Callers : \A body \in Bodies :
       (StartCommit(p, body) /\ resp'.kind = "created") =>
         \E r \in cast' :
           /\ r.id = resp'.id
           /\ r.claimMax = StoredClaimMax(body.claimMax, DefaultAsWritten(env))]_vars

\* C19: Start stores the request's claimMax when the field is present,
\* null included, and the configured default only when it is omitted; the
\* default is null for the settings "null" and "unlimited" in any letter
\* case, floor(n) for a number n >= 1 and 1 for every other setting.
C19_DefaultAnyCase ==
  [][\A p \in Callers : \A body \in Bodies :
       (StartCommit(p, body) /\ resp'.kind = "created") =>
         \E r \in cast' :
           /\ r.id = resp'.id
           /\ r.claimMax = StoredClaimMax(body.claimMax, DefaultAnyCase(env))]_vars

\* Under the setting 5/2 one ticket was stored with the default 2 and one
\* with the null its request gave.
C19_Witness ==
  /\ env = NumText(5, 2)
  /\ \E r \in cast : r.claimMax = Some(2)
  /\ \E r \in cast : r.claimMax = Null


\* C20: Get returns NotModified (304, no body, no wait) exactly when the
\* If-None-Match tag equals the tag of the current active ticket; the tag
\* depends on (id, claimed, startedAt) only, and a tag obtained before a
\* successful Claim or a superseding Start never matches afterwards: the
\* ticket they leave has a tag no stored ticket had, and from then on ids
\* are not reused, claimed does not decrease and startedAt does not change.
C20_NotModifiedIffTagMatches ==
  [][/\ \A p \in Callers : \A inm \in Tags : \A prefer \in Prefers :
          (getActive # {} /\ GetLoad(p, inm, prefer)) =>
            (resp'.kind = "not_modified"
               <=> \E r \in getActive :
                     inm = <<r.id, r.claimed, toMs(r.startedAt)>>)
     /\ resp'.kind = "not_modified" =>
          /\ resp'.status = 304
          /\ pc[resp'.to] = "idle"
          /\ pc'[resp'.to] = "idle"
     /\ resp'.kind \in {"ok", "created"} =>
          \A q \in cast' :
            q.id = resp'.id => \A r \in cast : etagFor(r) # etagFor(q)
     /\ \A q \in cast' :
          \/ \E r \in cast : /\ r.id = q.id
                             /\ r.claimed <= q.claimed
                             /\ r.startedAt = q.startedAt
          \/ q.id >= nextId /\ q.id < nextId']_vars

\* A Get has just answered 304 for the tag of a ticket that has been
\* claimed from.
C20_Witness ==
  /\ resp.kind = "not_modified"
  /\ resp.status = 304
  /\ \E r \in cast : etagFor(r) = resp.etag /\ r.claimed > 0


(* ------------------------------ C21 .. C30 ---------------------------- *)

\* The ticket a Get of caller p answers from in this step: the one it
\* loaded, now or before its wait.
Loaded(p) ==
  IF pc[p] = "get_wait" THEN loc[p].row ELSE CHOOSE r \in getActive : TRUE

\* This step sends caller p a 200 or 202 response of Get.
GetAnswers(p) ==
  resp'.op = "get" /\ resp'.to = p /\ resp'.status \notin {304, 404}

C22_GetResponds ==
  /\ [][\A p \in Callers :
          /\ \A inm \in Tags : \A prefer \in PollPrefers :
               (GetLoad(p, inm, prefer) /\ getActive # {}) =>
                 LET row == Loaded(p)
                     slept == IF pc'[p] = "get_wait" THEN loc'[p].wake - now
                              ELSE 0
                 IN  /\ slept <= nextEta(row, now)
                     /\ slept <= preferWait(prefer)
                     /\ slept <= PREFER_WAIT_MAX_MS
                     /\ (preferWait(prefer) = 0 \/ availableRuns(row, now) > 0)
                          => slept = 0
                     /\ pc'[p] # "get_wait" => resp'.to = p
          /\ pc[p] = "get_wait" =>
               \/ pc'[p] = "get_wait" /\ loc'[p] = loc[p] /\ now' <= loc[p].wake
               \/ pc'[p] = "idle" /\ now = loc[p].wake /\ GetAnswers(p)]_vars
  /\ \A p \in Procs : (pc[p] = "get_wait") ~> (pc[p] = "idle")

\* Two Gets are suspended at instant 0: one sleeps the 2000 ms to the next
\* run, the other the 500 ms it asked for.
C22_Witness ==
  \E p \in Callers :
    /\ pc[p] = "get_wait"
    /\ now = 0
    /\ loc[p].wake = 2000
    /\ \E q \in Callers : pc[q] = "get_wait" /\ loc[q].wake = 500


\* C23: a Get on an active ticket with availableRuns = 0 and claimed <
\* maxRuns, nothing else going on: with e the time to the next run at load
\* time and w the clamped requested wait, if w >= e the response is sent
\* when e has elapsed and is 200 with available >= 1; if w < e the response
\* is 202 with retry hint e - w.
C23_WaitOrHint ==
  resp.op = "get" =>
    LET row == CHOOSE r \in cast : TRUE
        into == (arg.atStart - toMs(row.startedAt)) % row.claimInterval
        e == row.claimInterval - into
        w == Min2(preferWait(arg.prefer), PREFER_WAIT_MAX_MS)
    IN  IF w >= e
          THEN /\ now = arg.atStart + e
               /\ resp.status = 200
               /\ resp.available >= 1
          ELSE /\ now = arg.atStart + w
               /\ resp.status = 202
               /\ resp.retryAfterMs = Some(e - w)

\* A Get issued at 500 with wait=500 was answered 202 with a hint of 1000 ms.
C23_Witness ==
  /\ resp.op = "get"
  /\ arg.atStart = 500
  /\ arg.prefer = Wait(500)
  /\ now = 1000
  /\ resp.status = 202
  /\ resp.retryAfterMs = Some(1000)


\* C24: finished(t, now) holds exactly when ticksElapsed(t, now) >=
\* maxRuns(t), whatever claimed is; a finished ticket stays the active one
\* (a Get answers with it and finished = true, not with 404) until a Cancel
\* or a Start; once claimed = maxRuns every later Claim is answered Paused
\* and every later Get reports nothing available.
C24_Finished ==
  [][/\ \A p \in Callers :
          GetAnswers(p) =>
            LET row == Loaded(p)
            IN  /\ resp'.finished <=> ticksElapsed(row, now') >= maxRuns(row)
                /\ \A c \in 0 .. UNLIMITED_CAP :
                     finished([row EXCEPT !.claimed = c], now') = resp'.finished
                /\ row.claimed = maxRuns(row) =>
                     resp'.status = 202 /\ resp'.available = 0
     /\ \A r \in getActive :
          finished(r, now) =>
            /\ \/ \E q \in getActive' : q.id = r.id
               \/ \E p \in Callers : CancelCommit(p)
               \/ \E p \in Callers : \E body \in Bodies : StartCommit(p, body)
            /\ \A p \in Callers :
                 (pc[p] = "idle" /\ resp'.to = p /\ resp'.op = "get") =>
                   /\ resp'.status # 404
                   /\ resp'.etag = etagFor(r)
                   /\ resp'.status # 304 => resp'.finished /\ resp'.id = r.id
            /\ r.claimed = maxRuns(r) =>
                 \A p \in Callers : \A limit \in Limits :
                   ClaimRead(p, limit) => resp'.to = p /\ resp'.kind = "paused"
    ]_vars

\* A Get was answered with a ticket of one run, claimed and finished.
C24_Witness ==
  /\ resp.op = "get"
  /\ resp.status = 202
  /\ resp.finished
  /\ resp.claimMax = Some(1)
  /\ resp.claimed = 1
  /\ \E r \in getActive : r.id = resp.id /\ r.claimed = maxRuns(r)


\* C25: once a ticket's endedAt is set, by Cancel or by a Start, its claimed
\* never changes again: a Claim that loaded the ticket while it was active
\* and runs its conditional update after the ticket was ended does not
\* increment claimed and is not answered with success.
C25_EndedNeverClaimed ==
  [][\A r \in cast :
       r.endedAt # Null =>
         /\ \A q \in cast' : q.id = r.id => q.claimed = r.claimed
         /\ \A p \in Callers :
              (pc[p] = "claim" /\ loc[p].row.id = r.id /\ resp'.to = p)
                => resp'.kind # "ok"]_vars


\* C26: every ended ticket has endedAt >= startedAt, and the active ticket,
\* if any, has a startedAt that is >= the startedAt of every ended ticket,
\* however Start and Cancel calls overlap, each Start taking its timestamp
\* before its transaction.
C26_TimestampsOrdered ==
  \A r \in cast :
    r.endedAt # Null =>
      /\ toMs(The(r.endedAt)) >= toMs(r.startedAt)
      /\ \A a \in ActiveRows : toMs(a.startedAt) >= toMs(r.startedAt)


\* The claimed of ticket id in the set rows; 0 while it is not stored.
ClaimedOf(rows, id) ==
  IF \E r \in rows : r.id = id
    THEN (CHOOSE r \in rows : r.id = id).claimed
    ELSE 0

\* C27: in every reachable state the claimed of every ticket is the sum of
\* the taken of the Claim calls on it that were answered with success,
\* however Claim, Start, Cancel and Get interleave.  A ticket starts with
\* claimed = 0 and no claim; the formula says that every step keeps the
\* two sides equal: claimed grows by the taken of the success this step
\* answers on that ticket, and by nothing otherwise; and what was taken
\* never exceeds the runs that have come due.
C27_ClaimedIsSumOfTaken ==
  [][/\ \A r \in cast' :
          /\ r.claimed - ClaimedOf(cast, r.id) =
               IF resp'.op = "claim" /\ resp'.kind = "ok" /\ resp'.id = r.id
                 THEN resp'.taken
                 ELSE 0
          /\ r.claimed <= Min2(ticksElapsed(r, now'), maxRuns(r))
     /\ (resp'.op = "claim" /\ resp'.kind = "ok") =>
          /\ resp'.taken >= 1
          /\ \E r \in cast' : r.id = resp'.id /\ r.claimed = resp'.totalClaimed
    ]_vars

\* The second successful Claim on a ticket: one run taken, two claimed.
C27_Witness ==
  /\ resp.op = "claim"
  /\ resp.kind = "ok"
  /\ resp.taken = 1
  /\ \E r \in cast : r.id = resp.id /\ r.claimed = 2


\* C28: a caller that re-issues Claim after every Conflict, on a ticket
\* that is neither cancelled nor superseded, gets an answer other than
\* Conflict in the end (success or Paused): every Conflict it gets goes with
\* a strict increase of claimed by another caller since it read the
\* ticket, so it gets at most maxRuns Conflicts.
C28_RetryEnds ==
  /\ [][LET p == Retrier
        IN  /\ \A r \in cast' : log'[p].conflicts <= maxRuns(r)
            /\ log'[p].conflicts # log[p].conflicts =>
                 /\ resp'.to = p /\ resp'.kind = "conflict"
                 /\ log'[p].conflicts = log[p].conflicts + 1
                 /\ raced[p]
                 /\ \E r \in cast : /\ r.id = loc[p].row.id
                                    /\ r.claimed > loc[p].row.claimed
            /\ (resp'.to = p /\ resp'.kind = "conflict") =>
                 log'[p].conflicts = log[p].conflicts + 1]_vars
  /\ <>(log[Retrier].kind \in {"ok", "paused"})

\* The retrier got two Conflicts on a ticket of two runs, then Paused.
C28_Witness ==
  /\ log[Retrier].kind = "paused"
  /\ log[Retrier].conflicts = 2
  /\ \A r \in cast : maxRuns(r) = 2 /\ r.claimed = 2


\* C29: the version tag of an active ticket does not depend on the time of
\* day: it stays as it is until a Claim succeeds (or the ticket is
\* replaced or cancelled), so a Get that supplies the tag it was given with
\* a 202 is answered NotModified at every later time, also when runs have
\* become available or the ticket has become finished.
C29_TagIgnoresTime ==
  [][/\ \A r \in getActive :
          (~(resp'.op = "claim" /\ resp'.kind = "ok")
             /\ resp'.op \notin {"start", "cancel"})
            => \E q \in getActive' : etagFor(q) = etagFor(r)
     /\ \A p \in Callers : \A prefer \in PollPrefers : \A r \in getActive :
          GetLoad(p, etagFor(r), prefer) =>
            /\ resp'.to = p
            /\ resp'.status = 304
            /\ resp'.etag = etagFor(r)]_vars

\* A Get with the tag of the ticket is answered 304 although a run is
\* available and the ticket is finished.
C29_Witness ==
  /\ resp.op = "get"
  /\ resp.status = 304
  /\ \E r \in getActive :
       /\ etagFor(r) = resp.etag
       /\ availableRuns(r, now) > 0
       /\ finished(r, now)


\* C30: Get loads the ticket once, before any wait; the id, claimed,
\* version tag, available and finished of its response come from the
\* ticket as it was stored then, with the clock read again: they are the
\* values stored before the wait also when a Claim, a Cancel or a Start
\* completed during the wait, and a Get is not answered NotFound because
\* the ticket was ended while it waited.
C30_AnswersFromSnapshot ==
  [][\A p \in Callers :
       /\ (pc[p] = "idle" /\ pc'[p] = "get_wait") => loc'[p].row \in getActive
       /\ pc[p] = "get_wait" =>
            LET row == loc[p].row
            IN  \/ pc'[p] = "get_wait" /\ loc'[p].row = row
                \/ /\ pc'[p] = "idle"
                   /\ resp'.to = p
                   /\ resp'.op = "get"
                   /\ resp'.status \in {200, 202}
                   /\ resp'.id = row.id
                   /\ resp'.claimed = row.claimed
                   /\ resp'.etag = <<row.id, row.claimed, toMs(row.startedAt)>>
                   /\ resp'.finished <=>
                        ticksElapsed(row, now) >= maxRuns(row)
                   /\ resp'.available =
                        Max2(0, Min2(ticksElapsed(row, now), maxRuns(row))
                                  - row.claimed)
                   /\ resp'.status = 200 <=> resp'.available > 0]_vars

\* A Get that waited is answered 200 with claimed 0 and one run available,
\* after a Claim took that run.
C30_Witness ==
  /\ resp.op = "get"
  /\ resp.status = 200
  /\ resp.claimed = 0
  /\ resp.available = 1
  /\ \E r \in cast : r.id = resp.id /\ r.claimed = 1


(* ------------------------------ C31 .. C37 ---------------------------- *)

\* The response just sent is a Paused of Claim or a 202 of Get, with an
\* eta, about the stored ticket r as it is now.
HintedOn(r) ==
  /\ resp.kind \in {"paused", "not_ready"}
  /\ resp.eta > 0
  /\ r \in getActive
  /\ r.id = resp.id
  /\ r.claimed = IF resp.op = "claim" THEN resp.totalClaimed ELSE resp.claimed

\* Nothing is available on r from now until just before e has passed, and
\* a run is when e has passed.
RunAfter(r, e) ==
  /\ \A t \in now .. now + e - 1 : availableRuns(r, t) = 0
  /\ availableRuns(r, now + e) >= 1

\* C31 as stated: when Claim answers Paused or Get answers 202 with eta =
\* e > 0 at time now, and nothing else happens, availableRuns of the ticket
\* is 0 throughout [now, now + e) and at least 1 at now + e, for every
\* ticket, one with claimed = maxRuns included.
C31_EtaIsTimeToRun ==
  \A r \in cast : HintedOn(r) => RunAfter(r, resp.eta)

\* C31, amended: the same for every ticket with claimed < maxRuns; on a
\* ticket with claimed = maxRuns the eta is the time to the next multiple
\* of claimInterval and nothing is available then either.
C31_EtaIsTimeToRunLeft ==
  \A r \in cast :
    HintedOn(r) =>
      /\ r.claimed < maxRuns(r) => RunAfter(r, resp.eta)
      /\ r.claimed >= maxRuns(r) =>
           \A t \in now .. now + resp.eta : availableRuns(r, t) = 0
      /\ (now + resp.eta - toMs(r.startedAt)) % r.claimInterval = 0

\* A Get was answered 202 with eta 1500 on a ticket with runs left.
C31_Witness ==
  \E r \in cast :
    /\ HintedOn(r)
    /\ resp.op = "get"
    /\ resp.eta = 1500
    /\ r.claimed < maxRuns(r)


\* floor(a / b) for b > 0, said without division: the k with
\* k * b <= a < (k + 1) * b.
IsFloorOf(k, a, b) == k * b <= a /\ a < (k + 1) * b

\* C32: for every ticket t and every now >= startedAt, availableRuns(t,
\* now) = max(0, min(floor((now - startedAt) / claimInterval), maxRuns(t))
\* - claimed), where ticksElapsed is 0 for now <= startedAt and maxRuns is
\* the cap for unlimited when claimMax is null; so claimed + availableRuns
\* is never more than maxRuns.
C32_AvailableRuns ==
  out # Null =>
    LET t == arg.row
        r == The(out)
        elapsed == arg.atMs - toMs(t.startedAt)
        M == IF t.claimMax = Null THEN UNLIMITED_CAP ELSE The(t.claimMax)
    IN  /\ r.maxRuns = M
        /\ elapsed <= 0 => r.ticks = 0
        /\ elapsed >= 0 =>
             /\ IsFloorOf(r.ticks, elapsed, t.claimInterval)
             /\ r.available =
                  (IF r.ticks <= M
                     THEN (IF r.ticks - t.claimed >= 0
                             THEN r.ticks - t.claimed ELSE 0)
                     ELSE (IF M - t.claimed >= 0 THEN M - t.claimed ELSE 0))
        /\ t.claimed + r.available <= M

\* More runs are due than the ticket allows, some of them claimed.
C32_Witness ==
  /\ out # Null
  /\ The(out).ticks > The(out).maxRuns
  /\ arg.row.claimed = 1
  /\ The(out).available = The(out).maxRuns - 1
  /\ The(out).available >= 1

\* C33: for every ticket t and every now, before startedAt as well,
\* nextEta(t, now) = 0 exactly when availableRuns(t, now) > 0, and
\* otherwise 0 < nextEta(t, now) <= claimInterval.
C33_EtaRange ==
  out # Null =>
    LET r == The(out)
    IN  /\ r.eta = 0 <=> r.available > 0
        /\ r.available <= 0 => (0 < r.eta /\ r.eta <= arg.row.claimInterval)

\* Before startedAt: 500 ms to go, nothing available.
C33_Witness ==
  /\ out # Null
  /\ arg.atMs = toMs(arg.row.startedAt) - 500
  /\ arg.row.claimInterval = 2000
  /\ The(out).eta = 500
  /\ The(out).available = 0


\* C34: Get only reads: no Get call changes a field of a ticket or the set
\* of tickets, whether it is answered 200, 202, 304 or 404, whether or not
\* it waits, and also when it is left waiting.
C34_GetReadsOnly ==
  [][/\ resp'.op = "get" => cast' = cast /\ nextId' = nextId
     /\ \A p \in Callers :
          /\ (pc[p] = "idle" /\ pc'[p] = "get_wait") =>
               cast' = cast /\ nextId' = nextId
          /\ (pc[p] = "get_wait" /\ pc'[p] # "get_wait") =>
               cast' = cast /\ nextId' = nextId /\ resp'.op = "get"
          /\ (pc[p] = "get_wait" /\ pc'[p] = "get_wait" /\ cast' # cast) =>
               \E q \in Callers \ {p} : resp'.to = q /\ resp'.op # "get"]_vars

\* A Get that waited is answered 200 while another Get, whose timer is
\* due, is still waiting.
C34_Witness ==
  /\ resp.op = "get"
  /\ resp.status = 200
  /\ cast # {}
  /\ \E q \in Callers : pc[q] = "get_wait" /\ loc[q].wake <= now


\* A Get is suspended in its wait.
Suspended == \E p \in Callers : pc[p] = "get_wait"

\* C35: while a Get is suspended in its wait, Start, Cancel, Claim and
\* other Get calls can be issued and can run to completion before it
\* resumes: every other caller can take its next step, whichever handler
\* it is in (Start only as long as the model has tickets left to create).
C35_WaitBlocksNobody ==
  Suspended =>
    \A q \in Callers :
      /\ pc[q] = "idle" =>
           /\ ENABLED CancelBegin(q)
           /\ \A limit \in Limits : ENABLED ClaimRead(q, limit)
           /\ \A inm \in Tags : ENABLED GetLoad(q, inm, Absent)
           /\ nextId + Cardinality({c \in Callers : pc[c] = "start"})
                <= MaxTickets => ENABLED StartBegin(q)
      /\ pc[q] = "start" => \A body \in Bodies : ENABLED StartCommit(q, body)
      /\ pc[q] = "cancel" => ENABLED CancelCommit(q)
      /\ pc[q] = "claim" => ENABLED ClaimWrite(q)

\* While one Get is suspended, its timer not yet due, a Start of another
\* caller has run to its answer and replaced the ticket the Get loaded.
C35_Witness ==
  \E p \in Callers :
    /\ pc[p] = "get_wait"
    /\ now < loc[p].wake
    /\ resp.op = "start"
    /\ resp.kind = "created"
    /\ resp.to # p
    /\ resp.startedAt = toISOString(now)
    /\ \A r \in cast : r.id # loc[p].row.id


\* C36: every ticket keeps the id, skill, target, startedAt, claimInterval
\* and claimMax written at its creation: a successful Claim changes only
\* claimed, a Cancel or a Start changes only endedAt, of the ticket that
\* was active, and nothing else changes a ticket.
C36_FieldsKept ==
  [][\A r \in cast :
       \E q \in cast' :
         /\ q.id = r.id
         /\ q = [r EXCEPT !.claimed = q.claimed, !.endedAt = q.endedAt]
         /\ q.claimed # r.claimed =>
              resp'.op = "claim" /\ resp'.kind = "ok" /\ q.endedAt = r.endedAt
         /\ q.endedAt # r.endedAt =>
              /\ r.endedAt = Null
              /\ resp'.kind \in {"created", "cancelled"}
              /\ q.claimed = r.claimed]_vars


\* C37: the claimed of every ticket starts at 0, never decreases, and
\* changes only in the step of a successful Claim on that ticket: Start,
\* Cancel, Get, a Paused Claim and a Conflict Claim leave the claimed of
\* every ticket that is stored as it is.
C37_ClaimedMonotone ==
  [][/\ \A q \in cast' :
          IF \E r \in cast : r.id = q.id
            THEN \A r \in cast :
                   r.id = q.id =>
                     /\ q.claimed >= r.claimed
                     /\ q.claimed # r.claimed =>
                          /\ resp'.op = "claim"
                          /\ resp'.kind = "ok"
                          /\ resp'.id = q.id
            ELSE q.claimed = 0 /\ resp'.kind = "created"
     /\ (resp'.op \in {"start", "cancel", "get"}
           \/ resp'.kind \in {"paused", "conflict"}) =>
          \A r \in cast : \A q \in cast' : q.id = r.id => q.claimed = r.claimed
    ]_vars

\* A Claim was answered Conflict on a ticket of which one run is claimed.
C37_Witness ==
  /\ resp.op = "claim"
  /\ resp.kind = "conflict"
  /\ \E r \in getActive : r.claimed = 1 /\ r.claimed < maxRuns(r)

====
